---------------------------- MODULE Spec2Model ----------------------------
(* The DDNS agent runtime of simple-namecheap-ddns: the main loop of      *)
(* agent/main.py, DDNSRunner of agent/core.py, LogDB of agent/database.py *)
(* and the URL guard of shared_lib/url_validation.py.                     *)
(*                                                                        *)
(* Text is modelled as a sequence of atoms (short strings): a message     *)
(* "contains" a token when the token atom occurs in the sequence.         *)
EXTENDS Integers, Sequences, FiniteSets, TLC

\* Python's None.
None == "None"

(* ------------------------------ bounds ------------------------------- *)
\* Update cycles the loop may start.
MaxCycles == 2
\* Writes of the configuration source by the publisher.
MaxWrites == 1
\* Calls of log_update that may fail in a run with storage faults.
MaxFaults == 1
\* Calls of load_config_if_changed in a run.
MaxPolls == 3
\* Rows the web application may add to update_history in a run.
MaxForces == 1
\* Seconds of sleep that pass in one step of the clock.
TickSeconds == 30

(* --------------------------- text helpers ---------------------------- *)
Contains(text, atom) == \E i \in 1..Len(text) : text[i] = atom

RECURSIVE Flatten(_)
Flatten(seqs) ==
    IF seqs = <<>> THEN <<>> ELSE Head(seqs) \o Flatten(Tail(seqs))

Max2(a, b) == IF a >= b THEN a ELSE b
Min2(a, b) == IF a <= b THEN a ELSE b

\* str.lower() on the hosts and schemes the model uses.
Lower(s) ==
    CASE s = "HTTPS" -> "https"
      [] s = "Provider.Example" -> "provider.example"
      [] OTHER -> s

(* ----------------------------- URL guard ----------------------------- *)
\* Literal IP hosts that ipaddress classifies private, loopback,
\* link-local, reserved, multicast or unspecified.
RejectedIPs == {"127.0.0.1", "10.0.0.5", "169.254.1.1", "240.0.0.1", "224.0.0.1", "0.0.0.0"}

OK == <<"ok">>

\* validate_url: OK, or the text of the ValueError it raises.
validate_url(value, allowed_hosts) ==
    LET scheme == Lower(value.scheme)
        host == Lower(value.host)
    IN  IF scheme # "https" THEN <<"URL must use https://">>
        ELSE IF value.host = "" THEN <<"URL must include a hostname">>
        ELSE IF host = "localhost" THEN <<"URL hostname cannot be localhost">>
        ELSE IF host \in RejectedIPs
            THEN <<"URL hostname cannot be a loopback or private IP">>
        ELSE IF allowed_hosts # {} /\ host \notin {Lower(h) : h \in allowed_hosts}
            THEN <<"URL host", host, "is not in the allowlist">>
        ELSE OK

(* ------------------------- update URL template ------------------------ *)
\* A named replacement field str.format has no value for: KeyError.
UnknownFields == {"{domain}"}
\* A positional replacement field: IndexError, there are no positional args.
PositionalFields == {"{0}"}

BadFieldAt(query) ==
    {i \in 1..Len(query) : query[i] \in UnknownFields \cup PositionalFields}

FirstBad(query) ==
    CHOOSE i \in BadFieldAt(query) : \A j \in BadFieldAt(query) : i <= j

Substitute(atom, token, hostname, target_id, ip_address) ==
    CASE atom = "{token}" -> token
      [] atom = "{hostname}" -> hostname
      [] atom = "{id}" -> target_id
      [] atom = "{ip}" -> (IF ip_address = None THEN "" ELSE ip_address)
      [] OTHER -> atom

\* _build_update_url: [ok |-> TRUE, url |-> ...], or the exception that
\* str.format raises and the except KeyError clause does not take.
_build_update_url(target_url, token, hostname, target_id, ip_address) ==
    IF BadFieldAt(target_url.query) = {}
    THEN [ok |-> TRUE,
          url |-> [target_url EXCEPT !.query =
                     [i \in 1..Len(target_url.query) |->
                        Substitute(target_url.query[i], token, hostname,
                                   target_id, ip_address)]]]
    ELSE IF target_url.query[FirstBad(target_url.query)] \in UnknownFields
    THEN [ok |-> TRUE, url |-> target_url]
    ELSE [ok |-> FALSE,
          exc |-> <<"Replacement index 0 out of range for positional args tuple">>]

(* --------------------------- token cipher ----------------------------- *)
Tokens == {"tokA", "tokB"}

\* CryptoManager.decrypt_str: the plaintext, or None for InvalidToken.
decrypt_str(cipher) ==
    CASE cipher = "ctA" -> "tokA"
      [] cipher = "ctB" -> "tokB"
      [] OTHER -> None

(* ------------------------ response interpreter ------------------------ *)
\* A response body is plain text, [kind |-> "text", text |-> atoms], or a
\* markup document, [kind |-> "xml", roots |-> elements at top level]; an
\* element is [tag, text, attrib, children], children being leaf elements.

\* _strip_xml_tag: the tag without its "{namespace}" prefix.
_strip_xml_tag(tag) ==
    CASE tag = "{urn:nc}ErrCount" -> "ErrCount"
      [] tag = "{urn:nc}IsSuccess" -> "IsSuccess"
      [] tag = "{urn:nc}Err1" -> "Err1"
      [] OTHER -> tag

\* str.strip() on the element texts the model uses.
Strip(s) ==
    CASE s = " " -> ""
      [] s = " 1 " -> "1"
      [] s = " NO " -> "NO"
      [] OTHER -> s

\* Tags with tag.startswith("Err") and tag[3:].isdigit().
ErrDigitTags == {"Err1", "Err2"}

\* int(text): <<n>>, or <<>> for ValueError.
ParseInt(s) ==
    CASE s = "0" -> <<0>>
      [] s = "1" -> <<1>>
      [] s = "2" -> <<2>>
      [] s = " 1 " -> <<1>>
      [] s = "-1" -> <<-1>>
      [] OTHER -> <<>>

\* value.strip().lower() of an IsSuccess value.
StripLower(s) ==
    CASE s \in {"false", "False", "FALSE"} -> "false"
      [] s \in {"no", "NO", " NO "} -> "no"
      [] s \in {"true", "True"} -> "true"
      [] OTHER -> s

\* A dict[str, str] is a sequence of <<key, value>> in insertion order.
HasKey(fields, key) == \E i \in 1..Len(fields) : fields[i][1] = key

GetKey(fields, key) ==
    IF HasKey(fields, key)
    THEN fields[CHOOSE i \in 1..Len(fields) : fields[i][1] = key][2]
    ELSE None

SetKey(fields, key, value) ==
    IF HasKey(fields, key)
    THEN [i \in 1..Len(fields) |->
            IF fields[i][1] = key THEN <<key, value>> ELSE fields[i]]
    ELSE Append(fields, <<key, value>>)

\* root.iter(): the element and its descendants in document order.
Iter(root) == <<root>> \o root.children

\* The text of a document as the provider sent it.
RECURSIVE RawElems(_)
RawElems(elems) ==
    IF elems = <<>> THEN <<>>
    ELSE LET e == Head(elems)
         IN  <<"<" , e.tag, ">">> \o (IF e.text = "" THEN <<>> ELSE <<e.text>>)
             \o RawElems(e.children) \o <<"</", e.tag, ">">>
             \o RawElems(Tail(elems))

RawBody(body) == IF body.kind = "text" THEN body.text ELSE RawElems(body.roots)

\* One pass of the loop body of _parse_namecheap_fields (lines 33-46).
ParseElem(fields, elem) ==
    LET tag == _strip_xml_tag(elem.tag)
        text == Strip(elem.text)
        f1 == IF tag = "ErrCount" /\ text # "" THEN SetKey(fields, "ErrCount", text)
              ELSE IF tag = "IsSuccess" /\ text # "" THEN SetKey(fields, "IsSuccess", text)
              ELSE IF tag \in ErrDigitTags /\ text # "" THEN SetKey(fields, tag, text)
              ELSE IF tag = "Error" /\ text # "" /\ ~HasKey(fields, "Err1")
                   THEN SetKey(fields, "Err1", text)
              ELSE fields
        f2 == IF HasKey(elem.attrib, "IsSuccess") /\ ~HasKey(f1, "IsSuccess")
              THEN SetKey(f1, "IsSuccess", GetKey(elem.attrib, "IsSuccess"))
              ELSE f1
    IN  IF HasKey(elem.attrib, "ErrCount") /\ ~HasKey(f2, "ErrCount")
        THEN SetKey(f2, "ErrCount", GetKey(elem.attrib, "ErrCount"))
        ELSE f2

RECURSIVE ParseElems(_, _)
ParseElems(fields, elems) ==
    IF elems = <<>> THEN fields
    ELSE ParseElems(ParseElem(fields, Head(elems)), Tail(elems))

\* _parse_namecheap_fields: no "<" in the body, or a body ElementTree cannot
\* parse (anything but exactly one top-level element), gives no fields.
_parse_namecheap_fields(body) ==
    IF body.kind = "text" THEN <<>>
    ELSE IF Len(body.roots) # 1 THEN <<>>
    ELSE ParseElems(<<>>, Iter(body.roots[1]))

\* A variant that compares IsSuccess as it stands, neither trimmed nor in
\* lower case.
_is_namecheap_error_Verbatim(fields) ==
    LET err_count == GetKey(fields, "ErrCount")
        is_success == GetKey(fields, "IsSuccess")
    IN  \/ /\ err_count # None
           /\ err_count # ""
           /\ ParseInt(err_count) # <<>>
           /\ ParseInt(err_count)[1] > 0
        \/ is_success \in {"false", "0", "no"}

_is_namecheap_error(fields) ==
    LET err_count == GetKey(fields, "ErrCount")
        is_success == GetKey(fields, "IsSuccess")
    IN  \/ /\ err_count # None
           /\ err_count # ""
           /\ ParseInt(err_count) # <<>>
           /\ ParseInt(err_count)[1] > 0
        \/ /\ is_success # None
           /\ is_success # ""
           /\ StripLower(is_success) \in {"false", "0", "no"}

FieldText(pair) == <<pair[1], "=", pair[2]>>

RECURSIVE JoinParts(_)
JoinParts(parts) ==
    IF parts = <<>> THEN <<>>
    ELSE IF Len(parts) = 1 THEN parts[1]
    ELSE parts[1] \o <<"|">> \o JoinParts(Tail(parts))

RECURSIVE SelectPairs(_, _)
SelectPairs(fields, keep) ==
    IF fields = <<>> THEN <<>>
    ELSE (IF Head(fields)[1] \in keep THEN <<Head(fields)>> ELSE <<>>)
         \o SelectPairs(Tail(fields), keep)

\* _format_namecheap_message; response_code is <<>> for None, else <<code>>.
_format_namecheap_message(body, response_code, fields) ==
    LET first == {"ErrCount", "IsSuccess", "Err1"}
        head == [i \in 1..Len(response_code) |-> <<"HTTP", ToString(response_code[i])>>]
        lead == Flatten([i \in 1..3 |->
                    LET key == <<"ErrCount", "IsSuccess", "Err1">>[i]
                    IN  IF HasKey(fields, key)
                        THEN <<FieldText(<<key, GetKey(fields, key)>>)>>
                        ELSE <<>>])
        rest == LET others == SelectPairs(fields,
                                {fields[i][1] : i \in 1..Len(fields)} \ first)
                IN  [i \in 1..Len(others) |-> FieldText(others[i])]
        detail_parts == head \o lead \o rest
        base == RawBody(body)
    IN  IF detail_parts # <<>>
        THEN IF base # <<>>
             THEN base \o <<"(">> \o JoinParts(detail_parts) \o <<")">>
             ELSE JoinParts(detail_parts)
        ELSE base

(* --------------------------- configuration ---------------------------- *)
IpA == "203.0.113.5"
IpB == "198.51.100.7"
\* Texts ipaddress.ip_address accepts.
ValidIpLiterals == {IpA, IpB}

Url(scheme, host, query) == [scheme |-> scheme, host |-> host, query |-> query]

UrlGood == Url("https", "provider.example", <<"{hostname}", "{token}", "{ip}">>)
UrlCaps == Url("HTTPS", "Provider.Example", <<"{id}", "{token}", "{ip}">>)
UrlLoopback == Url("https", "127.0.0.1", <<"{token}", "{ip}">>)
UrlHttp == Url("http", "provider.example", <<"{token}", "{ip}">>)
UrlOther == Url("https", "other.example", <<"{token}", "{ip}">>)
UrlPositional == Url("https", "provider.example", <<"{0}", "{token}">>)
UrlUnknown == Url("https", "provider.example", <<"{domain}", "{token}", "{ip}">>)

\* AgentTarget
Target(id, hostname, update_url, encrypted_token, interval) ==
    [id |-> id, hostname |-> hostname, update_url |-> update_url,
     encrypted_token |-> encrypted_token, interval |-> interval]

\* A configuration document as the publisher writes it; extra is whether it
\* carries a field the schema does not know.
Doc(targets, manual_ip_enabled, manual_ip_address, extra) ==
    [check_ip_url |-> Url("https", "api.ipify.org", <<>>), targets |-> targets,
     manual_ip_enabled |-> manual_ip_enabled,
     manual_ip_address |-> manual_ip_address, extra |-> extra]

DocPair ==
    Doc(<<Target("1", "home.example.org", UrlGood, "ctA", 20),
          Target("2", "vpn.example.org", UrlCaps, "ctB", 45)>>, FALSE, None, FALSE)
DocFaulty ==
    Doc(<<Target("1", "home.example.org", UrlLoopback, "ctA", 300),
          Target("2", "vpn.example.org", UrlGood, "ctBad", 60),
          Target("3", "nas.example.org", UrlPositional, "ctA", 0),
          Target("2", "lab.example.org", UrlOther, "ctB", 300),
          Target("1", "www.example.org", UrlHttp, "ctA", 300),
          Target("3", "nas.example.org", UrlUnknown, "ctB", 60)>>, TRUE, IpA, FALSE)
DocExtra == Doc(<<>>, FALSE, None, TRUE)
\* What the publisher writes for a target of two hostnames: two entries
\* of one id (publisher.py lines 45-72).
DocMulti ==
    Doc(<<Target("1", "home.example.org", UrlGood, "ctA", 20),
          Target("1", "www.example.org", UrlGood, "ctA", 20)>>, FALSE, None,
        FALSE)
\* What the publisher writes for the one target of WebTargets.
DocSolo ==
    Doc(<<Target("1", "home.example.org", UrlGood, "ctA", 20)>>, FALSE, None,
        FALSE)

ValidDocs == {DocPair, DocFaulty}
Docs == ValidDocs \cup {DocExtra}

\* What the configuration source holds: nothing (no file), whitespace, text
\* that is not JSON, or a JSON document.
Content(kind, doc) == [kind |-> kind, doc |-> doc]
NoDoc == Doc(<<>>, FALSE, None, FALSE)
Contents ==
    {Content(k, NoDoc) : k \in {"missing", "blank", "garbage"}}
    \cup {Content("json", d) : d \in Docs}

\* Further documents: manual override without an address over intervals
\* above the floor, the same without targets, and a check-IP URL the URL
\* guard rejects over intervals of zero and below.
DocFallback ==
    Doc(<<Target("1", "home.example.org", UrlGood, "ctA", 45),
          Target("2", "vpn.example.org", UrlCaps, "ctB", 90)>>, TRUE, "", FALSE)
DocIdle == Doc(<<>>, TRUE, None, FALSE)
DocGuarded ==
    [Doc(<<Target("1", "home.example.org", UrlGood, "ctA", -5),
           Target("2", "vpn.example.org", UrlGood, "ctB", 0)>>, FALSE, None, FALSE)
     EXCEPT !.check_ip_url = Url("http", "api.ipify.org", <<>>)]
WideDocs == {DocFallback, DocIdle, DocGuarded}
WideContents == Contents \cup {Content("json", d) : d \in WideDocs}

\* load_config's raw_payload while load_config is not running.
NoPayload == Content("missing", NoDoc)

\* AgentConfig
Config(check_ip_url, targets, manual_ip_enabled, manual_ip_address) ==
    [check_ip_url |-> check_ip_url, targets |-> targets,
     manual_ip_enabled |-> manual_ip_enabled,
     manual_ip_address |-> manual_ip_address]

\* AgentConfig.model_validate: <<config>>, or <<>> for a ValidationError.
model_validate(doc) ==
    IF doc.extra THEN <<>>
    ELSE IF \E i \in 1..Len(doc.targets) :
               \/ Lower(doc.targets[i].update_url.scheme) \notin {"http", "https"}
               \/ doc.targets[i].update_url.host = ""
         THEN <<>>
    ELSE IF doc.manual_ip_address \in {None, ""}
         THEN <<Config(doc.check_ip_url, doc.targets, doc.manual_ip_enabled, None)>>
    ELSE IF doc.manual_ip_address \notin ValidIpLiterals THEN <<>>
    ELSE <<Config(doc.check_ip_url, doc.targets, doc.manual_ip_enabled,
                  doc.manual_ip_address)>>

\* The configuration load_config builds for an empty source (lines 146-147).
EmptyConfig == Config(Url("https", "api.ipify.org", <<>>), <<>>, FALSE, None)

\* parse_host_allowlist of the environment's allowlists.
parse_host_allowlist(raw_value) == {Lower(h) : h \in raw_value}

(* ---------------------------- state store ----------------------------- *)
\* UpdateRecord; response_code is <<>> for None, else <<code>>.
UpdateRecord(target_id, status, message, response_code, ip_address) ==
    [target_id |-> target_id, status |-> status, message |-> message,
     response_code |-> response_code, ip_address |-> ip_address]

TargetIds == {"1", "2", "3"}
CacheKey(target_id) == <<"last_ip:", target_id>>
CacheKeys == {<<"last_ip">>} \cup {CacheKey(id) : id \in TargetIds}

(* ------------------------------- state -------------------------------- *)
VARIABLES
    pc,                 \* where the main thread of main() is
    reload_event,       \* threading.Event set by SIGHUP
    stop_event,         \* threading.Event set by SIGTERM
    config,             \* DDNSRunner._config: <<>> for None, else <<config>>
    config_mtime,       \* DDNSRunner._config_mtime: <<>> for None
    raw_payload,        \* load_config's text of the source, while it runs
    file,               \* the configuration source: [content, mtime]
    update_url_allowlist, \* DDNSRunner._update_url_allowlist
    cache,              \* the cache table: key -> value, None when absent
    history,            \* the update_history table, in insertion order
    current_ip,         \* run_once's current_ip
    skip_unchanged_ip,  \* run_once's skip_unchanged_ip, as a truth value
    idx,                \* position of run_once's loop in config.targets
    sleep_seconds,      \* main's sleep_seconds
    slept,              \* seconds the current wait has lasted
    exc,                \* the exception that left the loop, "none" if none
    closes,             \* calls of LogDB.close
    cycles,             \* update cycles started
    writes,             \* writes of the configuration source
    faults,             \* storage faults that may still strike log_update
    outcome,            \* this cycle: what became of each target position
    netCalls,           \* this cycle: update requests issued per position
    cycleLog,           \* this cycle: <<position, record>> the runtime appended
    cachedAtStart,      \* this cycle: last_ip as read at line 238
    unserved,           \* a SIGHUP arrived and no load has begun since
    hupInWait,          \* a SIGHUP arrived during the wait in progress
    cyclesAfterStop,    \* update cycles started with stop_event set
    ipLookups,          \* this cycle: requests _fetch_public_ip issued
    fallbackWarnings,   \* this cycle: warnings of lines 230-233 logged
    response,           \* a provider response handed to the interpreter
    verdict,            \* the UpdateRecord lines 291-311 make of response
    polls,              \* calls of load_config_if_changed that returned
    foreignWrites,      \* rows of update_history the web application wrote
    synced,             \* <<hostname, ip>> of the updates classified success
    knownIp             \* the IP of the last cycle with targets that knew its IP

vars == <<pc, reload_event, stop_event, config, config_mtime, raw_payload, file,
          update_url_allowlist, cache, history, current_ip, skip_unchanged_ip,
          idx, sleep_seconds, slept, exc, closes, cycles, writes, faults,
          outcome, netCalls, cycleLog, cachedAtStart, unserved, hupInWait,
          cyclesAfterStop, ipLookups, fallbackWarnings, response, verdict,
          polls, foreignWrites, synced, knownIp>>

mainVars == <<pc, config, config_mtime, raw_payload, cache, history, current_ip,
              skip_unchanged_ip, idx, sleep_seconds, slept, exc, closes, cycles,
              faults, outcome, netCalls, cycleLog, cachedAtStart, ipLookups,
              fallbackWarnings, knownIp>>

lookupVars == <<ipLookups, fallbackWarnings, knownIp>>
probeVars == <<response, verdict, polls, foreignWrites, synced>>

Cfg == config[1]
Truthy(s) == s # None /\ s # ""
Running == pc \notin {"exited", "failed"}

(* ---------------------------- environment ----------------------------- *)
\* handle_sighup (main lines 26-28)
handle_sighup ==
    /\ Running
    /\ reload_event' = TRUE
    /\ unserved' = TRUE
    /\ hupInWait' = (hupInWait \/ pc = "wait")
    /\ UNCHANGED <<probeVars, mainVars, stop_event, file,
                   update_url_allowlist, writes,
                   cyclesAfterStop>>

\* handle_sigterm (main lines 30-32)
handle_sigterm ==
    /\ Running
    /\ stop_event' = TRUE
    /\ UNCHANGED <<probeVars, mainVars, reload_event, file,
                   update_url_allowlist, writes,
                   unserved, hupInWait, cyclesAfterStop>>

\* The publisher replaces the source (ConfigCompiler._write_atomic), or the
\* operator removes or damages it. Only load_config reads the source, so a
\* write at any moment shows as a write just before the next read: that is
\* the moment the model takes it (before the first read, Init chooses).
\* load_config_if_changed looks at the source twice, to stat and to read
\* it, and a write may come before either.
WriteSource ==
    /\ pc \in {"reload_read", "poll", "poll_read"}
    /\ writes < MaxWrites
    /\ \E c \in Contents \ {file.content} :
         file' = [content |-> c, mtime |-> file.mtime + 1]
    /\ writes' = writes + 1
    /\ UNCHANGED <<probeVars, mainVars, reload_event, stop_event,
                   update_url_allowlist,
                   unserved, hupInWait, cyclesAfterStop>>

(* ----------------------------- the network ---------------------------- *)
Elem(tag, text, attrib, children) ==
    [tag |-> tag, text |-> text, attrib |-> attrib, children |-> children]
Leaf(tag, text) == Elem(tag, text, <<>>, <<>>)
TextBody(text) == [kind |-> "text", text |-> text, roots |-> <<>>]
XmlBody(roots) == [kind |-> "xml", text |-> <<>>, roots |-> roots]

BodyDone ==
    XmlBody(<<Elem("interface-response", "", <<>>,
                   <<Leaf("ErrCount", "0"), Leaf("Done", "true")>>)>>)
BodyInvalidHost ==
    XmlBody(<<Elem("interface-response", "", <<>>,
                   <<Leaf("ErrCount", "1"), Leaf("Err1", "Invalid Hostname")>>)>>)
BodyServerError == TextBody(<<"Internal Server Error">>)

NetResult(kind, code, body, message) ==
    [kind |-> kind, code |-> code, body |-> body, message |-> message]

\* No response is at hand, and no record has been made of one.
NoResponse == NetResult("none", <<>>, TextBody(<<>>), <<>>)
NoVerdict == UpdateRecord(None, "none", <<>>, <<>>, None)

\* Provider documents with one root element: ErrCount and IsSuccess as
\* child elements or as attributes of the root, absent when None.
Absent(text) == text = None
FieldDoc(err_count, is_success, as_attrib) ==
    LET pairs == (IF Absent(err_count) THEN <<>>
                  ELSE <<(<<"ErrCount", err_count>>)>>)
                 \o (IF Absent(is_success) THEN <<>>
                     ELSE <<(<<"IsSuccess", is_success>>)>>)
    IN  XmlBody(<<Elem("interface-response", "",
                       IF as_attrib THEN pairs ELSE <<>>,
                       IF as_attrib THEN <<>>
                       ELSE [i \in 1..Len(pairs) |->
                               Leaf(pairs[i][1], pairs[i][2])])>>)

ErrCountTexts == {None, "0", "1", "2", " 1 ", "-1", "many"}
IsSuccessTexts == {None, "true", "True", "false", "False", "FALSE", "no", " NO ", "0"}
StatusCodes == {200, 302, 399, 400, 404, 500}

\* Two sibling elements without a root around them.
BodyRootless ==
    XmlBody(<<Leaf("ErrCount", "1"), Leaf("Err1", "Invalid Hostname")>>)

ProviderBodies ==
    {FieldDoc(e, i, a) : e \in ErrCountTexts, i \in IsSuccessTexts, a \in BOOLEAN}
    \cup {BodyDone, BodyInvalidHost, BodyServerError, BodyRootless,
          TextBody(<<>>)}

\* A document that names a recognized field twice: in two elements of
\* that tag, or in an element of that tag and then in an attribute of a
\* later element.
RepeatTags == {"ErrCount", "IsSuccess", "Err1", "Err2"}
RepeatTexts == {"0", "1", "2", "true", "false"}
RepeatDoc(tag, first, second) ==
    XmlBody(<<Elem("interface-response", "", <<>>,
                   <<Leaf(tag, first), Leaf(tag, second)>>)>>)
LateAttribDoc(tag, first, second) ==
    XmlBody(<<Elem("interface-response", "", <<>>,
                   <<Leaf(tag, first),
                     Elem("Result", "", <<(<<tag, second>>)>>, <<>>)>>)>>)
RepeatBodies ==
    {RepeatDoc(t, a, b) : t \in RepeatTags, a \in RepeatTexts, b \in RepeatTexts}
    \cup {LateAttribDoc(t, a, b) : t \in {"ErrCount", "IsSuccess"},
                                   a \in RepeatTexts, b \in RepeatTexts}
RepeatResponses ==
    {NetResult("response", <<code>>, body, <<>>) :
        code \in {200, 500}, body \in RepeatBodies}

\* The responses session.get may return, as far as lines 291-311 tell
\* them apart.
ProviderResponses ==
    {NetResult("response", <<code>>, body, <<>>) :
        code \in StatusCodes, body \in ProviderBodies}

\* What session.get(update_url, timeout=20) may do: answer, or raise a
\* requests.RequestException. A ConnectionError's text names the path and
\* query of the request (urllib3's "Max retries exceeded with url: ..."),
\* and it carries no response.
SessionGet(url) ==
    {NetResult("response", <<200>>, BodyDone, <<>>),
     NetResult("response", <<200>>, BodyInvalidHost, <<>>),
     NetResult("response", <<500>>, BodyServerError, <<>>),
     NetResult("RequestException", <<>>, TextBody(<<>>),
               <<"Max retries exceeded with url:">> \o url.query)}

\* What the check-IP request of _fetch_public_ip may yield: the stripped
\* text of the answer, or None when the request fails.
CheckIpAnswers == {IpA, IpB, None}

\* AGENT_CHECK_IP_HOST_ALLOWLIST is not set.
check_ip_allowlist == parse_host_allowlist({})

\* _fetch_public_ip: the values it may return, each with the number of
\* requests it took (none when the URL guard rejects the check-IP URL).
_fetch_public_ip(cfg) ==
    IF validate_url(cfg.check_ip_url, check_ip_allowlist) # OK
    THEN {[value |-> None, requests |-> 0]}
    ELSE {[value |-> answer, requests |-> 1] : answer \in CheckIpAnswers}

\* str() of the sqlite3 error a failing log_update raises.
StorageErrorText == <<"database is locked">>

(* ------------------------ one target of run_once ---------------------- *)
Result(kind, records, cache_write, raised, calls, used) ==
    [kind |-> kind, records |-> records, cache_write |-> cache_write,
     raised |-> raised, calls |-> calls, used |-> used]

\* A log_update that may fail: the results when it works and, when the
\* fault budget allows, onFault.
LogOrFault(budget, worked, onFault) ==
    {worked} \cup (IF budget > 0 THEN onFault ELSE {})

\* A variant of the clause that lets the exception go on instead of
\* recording it.
ExceptException_Reraises(target, ip, text, kind, calls, budget, used) ==
    {Result(kind, <<>>, FALSE, TRUE, calls, used)}

\* The except Exception clause (lines 329-339): log an error record with
\* the exception's text; a fault of that log_update leaves run_once.
ExceptException(target, ip, text, kind, calls, budget, used) ==
    LogOrFault(budget,
        Result(kind, <<UpdateRecord(target.id, "error", text, <<>>, ip)>>,
               FALSE, FALSE, calls, used),
        {Result("storage_fault", <<>>, FALSE, TRUE, calls, used + 1)})

\* A variant of the clause that asks the provider once more before it
\* records the failure.
ExceptRequestException_Retries(target, ip, net, budget) ==
    {Result("network_failure",
            <<UpdateRecord(target.id, "error", net.message, net.code, ip)>>,
            FALSE, FALSE, 2, 0)}

\* The except requests.RequestException clause (lines 318-328).
ExceptRequestException(target, ip, net, budget) ==
    LogOrFault(budget,
        Result("network_failure",
               <<UpdateRecord(target.id, "error", net.message, net.code, ip)>>,
               FALSE, FALSE, 1, 0),
        {Result("storage_fault", <<>>, FALSE, TRUE, 1, 1)})

\* A variant of the response branch that writes the target's cache entry
\* whatever the status.
OnResponse_AlwaysCaches(target, ip, net, budget) ==
    LET parsed_fields == _parse_namecheap_fields(net.body)
        status == IF \/ net.code[1] >= 400
                     \/ _is_namecheap_error(parsed_fields)
                  THEN "error" ELSE "success"
    IN  {Result(IF status = "success" THEN "success" ELSE "provider_error",
                <<UpdateRecord(target.id, status, RawBody(net.body), net.code,
                               ip)>>,
                Truthy(ip), FALSE, 1, 0)}

\* The response branch (lines 291-317); parsed_fields and message are
\* computed once, as the locals of lines 292 and 298 are.
OnResponse(target, ip, net, budget) ==
    UNION {LET response_code == net.code[1]
               status == IF \/ response_code >= 400
                            \/ _is_namecheap_error(parsed_fields)
                         THEN "error" ELSE "success"
           IN  UNION {LogOrFault(budget,
                        Result(IF status = "success" THEN "success"
                               ELSE "provider_error",
                               <<UpdateRecord(target.id, status, message,
                                              net.code, ip)>>,
                               status = "success" /\ Truthy(ip), FALSE, 1, 0),
                        ExceptException(target, ip, StorageErrorText,
                                        "storage_fault", 1, budget - 1, 1))
                      : message \in {_format_namecheap_message(
                                        net.body, net.code, parsed_fields)}}
           : parsed_fields \in {_parse_namecheap_fields(net.body)}}

\* A variant of the clause that records the rejection and sends the
\* request all the same.
OnRejected_StillRequests(target, ip, reason, budget) ==
    {Result("url_rejected",
            <<UpdateRecord(target.id, "error",
                           <<"Update URL rejected:">> \o reason, <<>>, ip)>>,
            FALSE, FALSE, 1, 0)}

\* The except ValueError clause of the URL guard (lines 273-289).
OnRejected(target, ip, reason, budget) ==
    LogOrFault(budget,
        Result("url_rejected",
               <<UpdateRecord(target.id, "error",
                              <<"Update URL rejected:">> \o reason, <<>>, ip)>>,
               FALSE, FALSE, 0, 0),
        ExceptException(target, ip, StorageErrorText, "storage_fault", 0,
                        budget - 1, 1))

\* Lines 258-342 for one target: every result the attempt may have, given
\* how many storage faults may still strike.
Attempt(target, ip, allowed_hosts, budget) ==
    LET token == decrypt_str(target.encrypted_token)
        built == _build_update_url(target.update_url, token, target.hostname,
                                   target.id, ip)
    IN  IF token = None
        THEN ExceptException(target, ip, <<>>, "decrypt_failed", 0, budget, 0)
        ELSE IF ~built.ok
        THEN ExceptException(target, ip, built.exc, "unexpected", 0, budget, 0)
        ELSE IF validate_url(built.url, allowed_hosts) # OK
        THEN OnRejected(target, ip, validate_url(built.url, allowed_hosts), budget)
        ELSE UNION {IF net.kind = "response"
                    THEN OnResponse(target, ip, net, budget)
                    ELSE ExceptRequestException(target, ip, net, budget)
                    : net \in SessionGet(built.url)}

(* ---------------------------- config loader --------------------------- *)
envVars == <<reload_event, stop_event, file, update_url_allowlist, writes,
             hupInWait>>
cycleVars == <<current_ip, skip_unchanged_ip, idx, outcome, netCalls, cycleLog,
               cachedAtStart>>
storeVars == <<cache, history, faults>>

\* load_config, lines 132-139: read the source and note its fingerprint.
LoadRead(at, next, onError) ==
    /\ pc = at
    /\ IF file.content.kind = "missing"
       THEN /\ exc' = "FileNotFoundError"
            /\ pc' = onError
            /\ UNCHANGED <<raw_payload, config_mtime>>
       ELSE /\ raw_payload' = file.content
            /\ config_mtime' = <<file.mtime>>
            /\ pc' = next
            /\ UNCHANGED exc
    /\ unserved' = FALSE
    /\ UNCHANGED <<lookupVars, probeVars, envVars, cycleVars, storeVars,
                   config, sleep_seconds, slept,
                   closes, cycles, cyclesAfterStop>>

\* load_config, lines 141-162: parse, validate and install the configuration.
LoadParse(at, next, onError) ==
    /\ pc = at
    /\ LET validated == model_validate(raw_payload.doc)
       IN  IF raw_payload.kind = "blank"
           THEN config' = <<EmptyConfig>> /\ pc' = next /\ UNCHANGED exc
           ELSE IF raw_payload.kind = "garbage"
           THEN exc' = "ValueError" /\ pc' = onError /\ UNCHANGED config
           ELSE IF validated = <<>>
           THEN exc' = "ValidationError" /\ pc' = onError /\ UNCHANGED config
           ELSE config' = validated /\ pc' = next /\ UNCHANGED exc
    /\ raw_payload' = NoPayload
    /\ UNCHANGED <<lookupVars, probeVars, envVars, cycleVars, storeVars,
                   config_mtime, sleep_seconds,
                   slept, closes, cycles, unserved, cyclesAfterStop>>

(* ---------------------- load_config_if_changed ----------------------- *)
\* PollStat forgetting line 173: the fingerprint survives a missing source.
PollStat_KeepsFingerprint ==
    /\ pc = "poll"
    /\ polls < MaxPolls
    /\ pc' = IF file.content.kind # "missing" /\ config_mtime # <<file.mtime>>
             THEN "poll_read" ELSE "poll_false"
    /\ UNCHANGED <<lookupVars, probeVars, envVars, cycleVars, storeVars,
                   config, config_mtime, raw_payload, sleep_seconds, slept,
                   exc, closes, cycles, unserved, cyclesAfterStop>>

\* load_config_if_changed, lines 165-179 but for the call of load_config:
\* stat the source and compare its fingerprint with the one held.
PollStat ==
    /\ pc = "poll"
    /\ polls < MaxPolls
    /\ IF file.content.kind = "missing"
       THEN /\ config_mtime' = <<>>
            /\ pc' = "poll_false"
       ELSE /\ pc' = IF config_mtime = <<>> \/ config_mtime # <<file.mtime>>
                     THEN "poll_read" ELSE "poll_false"
            /\ UNCHANGED config_mtime
    /\ UNCHANGED <<lookupVars, probeVars, envVars, cycleVars, storeVars,
                   config, raw_payload, sleep_seconds, slept, exc, closes,
                   cycles, unserved, cyclesAfterStop>>

\* line 177: self.load_config(); line 178 returns True after it.
PollRead == LoadRead("poll_read", "poll_parse", "poll_raised")
PollParse == LoadParse("poll_parse", "poll_true", "poll_raised")

\* The call has returned or raised, and the caller is about to call again.
PollAgain ==
    /\ pc \in {"poll_false", "poll_true", "poll_raised"}
    /\ pc' = "poll"
    /\ polls' = polls + 1
    /\ exc' = "none"
    /\ UNCHANGED <<lookupVars, response, verdict, foreignWrites, synced,
                   envVars,
                   cycleVars, storeVars, config, config_mtime, raw_payload,
                   sleep_seconds, slept, closes, cycles, unserved,
                   cyclesAfterStop>>

(* ------------------------------ main loop ----------------------------- *)
\* main line 37: the load at startup, outside the try block.
BootRead == LoadRead("boot_read", "boot_parse", "failed")
BootParse == LoadParse("boot_parse", "while", "failed")

\* main line 40: while not stop_event.is_set()
While ==
    /\ pc = "while"
    /\ IF stop_event
       THEN pc' = "finally"
       ELSE cycles < MaxCycles /\ pc' = "reload_check"
    /\ UNCHANGED <<lookupVars, probeVars, envVars, cycleVars, storeVars,
                   config, config_mtime,
                   raw_payload, sleep_seconds, slept, exc, closes, cycles,
                   unserved, cyclesAfterStop>>

\* main line 41: if reload_event.is_set()
ReloadCheck ==
    /\ pc = "reload_check"
    /\ pc' = IF reload_event THEN "reload_read" ELSE "run_once"
    /\ UNCHANGED <<lookupVars, probeVars, envVars, cycleVars, storeVars,
                   config, config_mtime,
                   raw_payload, sleep_seconds, slept, exc, closes, cycles,
                   unserved, cyclesAfterStop>>

\* main line 42: runner.load_config(); what it raises leaves the loop.
ReloadRead == LoadRead("reload_read", "reload_parse", "finally")
ReloadParse == LoadParse("reload_parse", "clear", "finally")

\* main lines 43-44: reload_event.clear()
Clear ==
    /\ pc = "clear"
    /\ reload_event' = FALSE
    /\ pc' = "run_once"
    /\ UNCHANGED <<lookupVars, probeVars, stop_event, file,
                   update_url_allowlist, writes, hupInWait,
                   cycleVars, storeVars, config, config_mtime, raw_payload, sleep_seconds,
                   slept, exc, closes, cycles, unserved, cyclesAfterStop>>

\* get_sleep_seconds (lines 344-348)
RECURSIVE MinInterval(_)
MinInterval(targets) ==
    IF Len(targets) = 1 THEN targets[1].interval
    ELSE Min2(targets[1].interval, MinInterval(Tail(targets)))

\* A variant without the floor of 30 seconds.
get_sleep_seconds_NoFloor(cfg) ==
    IF cfg.targets = <<>> THEN 60 ELSE MinInterval(cfg.targets)

get_sleep_seconds(cfg) ==
    IF cfg.targets = <<>> THEN 60 ELSE Max2(30, MinInterval(cfg.targets))

\* main line 46; run_once has returned, and its locals are gone.
GetSleep ==
    /\ pc = "get_sleep"
    /\ sleep_seconds' = get_sleep_seconds(Cfg)
    /\ slept' = 0
    /\ pc' = "wait"
    /\ current_ip' = None
    /\ skip_unchanged_ip' = FALSE
    /\ idx' = 0
    /\ outcome' = <<>>
    /\ netCalls' = <<>>
    /\ cycleLog' = <<>>
    /\ cachedAtStart' = None
    /\ ipLookups' = 0
    /\ fallbackWarnings' = 0
    /\ UNCHANGED <<probeVars, envVars, storeVars, config, config_mtime,
                   raw_payload, exc, closes, cycles, unserved,
                   cyclesAfterStop, knownIp>>

\* A variant of the wait that goes on sleeping with the stop event set.
WaitTick_IgnoresStop ==
    /\ pc = "wait"
    /\ slept < sleep_seconds
    /\ slept' = Min2(slept + TickSeconds, sleep_seconds)
    /\ UNCHANGED <<lookupVars, probeVars, envVars, cycleVars, storeVars, pc,
                   config, config_mtime,
                   raw_payload, sleep_seconds, exc, closes, cycles, unserved,
                   cyclesAfterStop>>

\* main line 47, stop_event.wait(timeout=sleep_seconds): time passes while
\* the event is clear and the timeout has not run out.
WaitTick ==
    /\ pc = "wait"
    /\ ~stop_event
    /\ slept < sleep_seconds
    /\ slept' = Min2(slept + TickSeconds, sleep_seconds)
    /\ UNCHANGED <<lookupVars, probeVars, envVars, cycleVars, storeVars, pc,
                   config, config_mtime,
                   raw_payload, sleep_seconds, exc, closes, cycles, unserved,
                   cyclesAfterStop>>

\* main line 47: wait returns when the event is set or the timeout is over.
WaitReturn ==
    /\ pc = "wait"
    /\ stop_event \/ slept >= sleep_seconds
    /\ pc' = "while"
    /\ hupInWait' = FALSE
    /\ UNCHANGED <<lookupVars, probeVars, reload_event, stop_event, file,
                   update_url_allowlist, writes,
                   cycleVars, storeVars, config, config_mtime,
                   raw_payload, sleep_seconds, slept, exc, closes, cycles,
                   unserved, cyclesAfterStop>>

\* A variant of the exit that leaves the store open.
Close_Skipped ==
    /\ pc = "finally"
    /\ pc' = "exited"
    /\ UNCHANGED <<lookupVars, probeVars, envVars, cycleVars, storeVars,
                   config, config_mtime,
                   raw_payload, sleep_seconds, slept, exc, closes, cycles,
                   unserved, cyclesAfterStop>>

\* main lines 48-49: finally: runner.close()
Close ==
    /\ pc = "finally"
    /\ closes' = closes + 1
    /\ pc' = "exited"
    /\ UNCHANGED <<lookupVars, probeVars, envVars, cycleVars, storeVars,
                   config, config_mtime,
                   raw_payload, sleep_seconds, slept, exc, cycles, unserved,
                   cyclesAfterStop>>

(* ------------------------------ run_once ------------------------------ *)
\* set_cache as INSERT OR IGNORE: a key once written keeps its value.
set_cache_InsertOrIgnore(store, key, value) ==
    IF store[key] = None THEN [store EXCEPT ![key] = value] ELSE store
\* LogDB.set_cache: upsert.
set_cache(store, key, value) == [store EXCEPT ![key] = value]
\* LogDB.get_cache: the value, None when the key is absent.
get_cache(store, key) == IF key \in DOMAIN store THEN store[key] ELSE None
\* LogDB.log_update: append.
\* log_update putting the new rows before the old ones.
log_update_Prepends(table, records) == records \o table
log_update(table, records) == table \o records

\* A variant of lines 221-237 that takes the manual address whenever the
\* override is enabled, configured or not.
DetermineIp_NoFallback ==
    /\ pc = "run_once"
    /\ cycles' = cycles + 1
    /\ cyclesAfterStop' = cyclesAfterStop + (IF stop_event THEN 1 ELSE 0)
    /\ outcome' = [i \in 1..Len(Cfg.targets) |-> "pending"]
    /\ netCalls' = [i \in 1..Len(Cfg.targets) |-> 0]
    /\ cycleLog' = <<>>
    /\ cachedAtStart' = None
    /\ skip_unchanged_ip' = FALSE
    /\ idx' = 0
    /\ fallbackWarnings' = 0
    /\ IF Cfg.targets = <<>>
       THEN /\ current_ip' = None
            /\ ipLookups' = 0
            /\ pc' = "get_sleep"
       ELSE /\ pc' = "read_cache"
            /\ IF Cfg.manual_ip_enabled
               THEN /\ current_ip' = Cfg.manual_ip_address
                    /\ ipLookups' = 0
               ELSE \E fetched \in _fetch_public_ip(Cfg) :
                         /\ current_ip' = fetched.value
                         /\ ipLookups' = fetched.requests
    /\ knownIp' = IF Cfg.targets # <<>> /\ Truthy(current_ip')
                  THEN current_ip' ELSE knownIp
    /\ UNCHANGED <<probeVars, envVars, storeVars, config, config_mtime,
                   raw_payload, sleep_seconds, slept, exc, closes, unserved>>

\* A variant of lines 221-237 that looks the IP up before it finds that
\* there are no targets.
DetermineIp_LooksUpFirst ==
    /\ pc = "run_once"
    /\ cycles' = cycles + 1
    /\ cyclesAfterStop' = cyclesAfterStop + (IF stop_event THEN 1 ELSE 0)
    /\ outcome' = [i \in 1..Len(Cfg.targets) |-> "pending"]
    /\ netCalls' = [i \in 1..Len(Cfg.targets) |-> 0]
    /\ cycleLog' = <<>>
    /\ cachedAtStart' = None
    /\ skip_unchanged_ip' = FALSE
    /\ idx' = 0
    /\ pc' = IF Cfg.targets = <<>> THEN "get_sleep" ELSE "read_cache"
    /\ IF Cfg.manual_ip_enabled /\ Truthy(Cfg.manual_ip_address)
       THEN /\ current_ip' = Cfg.manual_ip_address
            /\ ipLookups' = 0
            /\ fallbackWarnings' = 0
       ELSE /\ \E fetched \in _fetch_public_ip(Cfg) :
                 /\ current_ip' = fetched.value
                 /\ ipLookups' = fetched.requests
            /\ fallbackWarnings' = (IF Cfg.manual_ip_enabled THEN 1 ELSE 0)
    /\ knownIp' = IF Cfg.targets # <<>> /\ Truthy(current_ip')
                  THEN current_ip' ELSE knownIp
    /\ UNCHANGED <<probeVars, envVars, storeVars, config, config_mtime,
                   raw_payload, sleep_seconds, slept, exc, closes, unserved>>

\* run_once lines 221-237: no targets, or the current IP.
DetermineIp ==
    /\ pc = "run_once"
    /\ cycles' = cycles + 1
    /\ cyclesAfterStop' = cyclesAfterStop + (IF stop_event THEN 1 ELSE 0)
    /\ outcome' = [i \in 1..Len(Cfg.targets) |-> "pending"]
    /\ netCalls' = [i \in 1..Len(Cfg.targets) |-> 0]
    /\ cycleLog' = <<>>
    /\ cachedAtStart' = None
    /\ skip_unchanged_ip' = FALSE
    /\ idx' = 0
    /\ IF Cfg.targets = <<>>
       THEN /\ current_ip' = None
            /\ ipLookups' = 0
            /\ fallbackWarnings' = 0
            /\ pc' = "get_sleep"
       ELSE /\ pc' = "read_cache"
            /\ IF Cfg.manual_ip_enabled /\ Truthy(Cfg.manual_ip_address)
               THEN /\ current_ip' = Cfg.manual_ip_address
                    /\ ipLookups' = 0
                    /\ fallbackWarnings' = 0
               ELSE /\ \E fetched \in _fetch_public_ip(Cfg) :
                         /\ current_ip' = fetched.value
                         /\ ipLookups' = fetched.requests
                    /\ fallbackWarnings' =
                         (IF Cfg.manual_ip_enabled THEN 1 ELSE 0)
    /\ knownIp' = IF Cfg.targets # <<>> /\ Truthy(current_ip')
                  THEN current_ip' ELSE knownIp
    /\ UNCHANGED <<probeVars, envVars, storeVars, config, config_mtime,
                   raw_payload, sleep_seconds, slept, exc, closes, unserved>>

\* run_once lines 238-243
ReadLastIp ==
    /\ pc = "read_cache"
    /\ cachedAtStart' = get_cache(cache, <<"last_ip">>)
    /\ skip_unchanged_ip' =
         (Truthy(current_ip) /\ get_cache(cache, <<"last_ip">>) = current_ip)
    /\ pc' = "write_cache"
    /\ UNCHANGED <<lookupVars, probeVars, envVars, storeVars, config,
                   config_mtime, raw_payload,
                   current_ip, idx, outcome, netCalls, cycleLog, sleep_seconds,
                   slept, exc, closes, cycles, unserved, cyclesAfterStop>>

\* A variant of lines 245-246 that leaves last_ip as it was.
WriteLastIp_NoWrite ==
    /\ pc = "write_cache"
    /\ idx' = 1
    /\ pc' = "target"
    /\ UNCHANGED <<lookupVars, probeVars, envVars, storeVars, config,
                   config_mtime, raw_payload,
                   current_ip, skip_unchanged_ip, outcome, netCalls, cycleLog,
                   cachedAtStart, sleep_seconds, slept, exc, closes, cycles,
                   unserved, cyclesAfterStop>>

\* A variant of lines 245-246 that writes whatever the current IP is.
WriteLastIp_Always ==
    /\ pc = "write_cache"
    /\ cache' = set_cache(cache, <<"last_ip">>, current_ip)
    /\ idx' = 1
    /\ pc' = "target"
    /\ UNCHANGED <<lookupVars, probeVars, envVars, history, faults, config,
                   config_mtime, raw_payload, current_ip, skip_unchanged_ip,
                   outcome, netCalls, cycleLog, cachedAtStart, sleep_seconds,
                   slept, exc, closes, cycles, unserved, cyclesAfterStop>>

\* run_once lines 245-246
WriteLastIp ==
    /\ pc = "write_cache"
    /\ cache' = IF Truthy(current_ip)
                THEN set_cache(cache, <<"last_ip">>, current_ip)
                ELSE cache
    /\ idx' = 1
    /\ pc' = "target"
    /\ UNCHANGED <<lookupVars, probeVars, envVars, history, faults, config,
                   config_mtime, raw_payload,
                   current_ip, skip_unchanged_ip, outcome, netCalls, cycleLog,
                   cachedAtStart, sleep_seconds, slept, exc, closes, cycles,
                   unserved, cyclesAfterStop>>

\* A variant of the rule that looks the target up under its hostname.
SkipsTarget_ByHostname(target) ==
    /\ skip_unchanged_ip
    /\ Truthy(current_ip)
    /\ get_cache(cache, CacheKey(target.hostname)) = current_ip

\* A variant of the rule that goes by the global flag alone.
SkipsTarget_GlobalOnly(target) ==
    /\ skip_unchanged_ip
    /\ Truthy(current_ip)

\* run_once lines 249-252: the per-target cache rule.
SkipsTarget(target) ==
    /\ skip_unchanged_ip
    /\ Truthy(current_ip)
    /\ get_cache(cache, CacheKey(target.id)) = current_ip

\* Where the loop goes after the target at idx.
Advance ==
    IF idx = Len(Cfg.targets)
    THEN pc' = "get_sleep" /\ idx' = idx
    ELSE pc' = "target" /\ idx' = idx + 1

\* run_once lines 248-257: the target is skipped.
SkipTarget ==
    /\ pc = "target"
    /\ SkipsTarget(Cfg.targets[idx])
    /\ outcome' = [outcome EXCEPT ![idx] = "skipped"]
    /\ Advance
    /\ UNCHANGED <<lookupVars, probeVars, envVars, storeVars, config,
                   config_mtime, raw_payload,
                   current_ip, skip_unchanged_ip, netCalls, cycleLog,
                   cachedAtStart, sleep_seconds, slept, exc, closes, cycles,
                   unserved, cyclesAfterStop>>

\* run_once lines 258-342: the target is attempted.
AttemptTarget ==
    /\ pc = "target"
    /\ ~SkipsTarget(Cfg.targets[idx])
    /\ \E r \in Attempt(Cfg.targets[idx], current_ip, update_url_allowlist,
                        faults) :
         /\ history' = log_update(history, r.records)
         /\ cycleLog' = cycleLog \o [i \in 1..Len(r.records) |-> <<idx, r.records[i]>>]
         /\ cache' = IF r.cache_write
                     THEN set_cache(cache, CacheKey(Cfg.targets[idx].id), current_ip)
                     ELSE cache
         /\ faults' = faults - r.used
         /\ netCalls' = [netCalls EXCEPT ![idx] = @ + r.calls]
         /\ outcome' = [outcome EXCEPT ![idx] = r.kind]
         /\ synced' = IF r.kind = "success"
                      THEN synced \cup {<<Cfg.targets[idx].hostname, current_ip>>}
                      ELSE synced
         /\ IF r.raised
            THEN pc' = "finally" /\ exc' = "sqlite3.Error" /\ idx' = idx
            ELSE Advance /\ UNCHANGED exc
    /\ UNCHANGED <<lookupVars, response, verdict, polls, foreignWrites,
                   envVars, config, config_mtime,
                   raw_payload, current_ip,
                   skip_unchanged_ip, cachedAtStart, sleep_seconds, slept,
                   closes, cycles, unserved, cyclesAfterStop>>

\* run_once lines 291-311 on the response at hand: classify it and make
\* its record (for the first target of DocPair, at address IpA).
Interpret ==
    /\ pc = "interpret"
    /\ \E r \in OnResponse(DocPair.targets[1], IpA, response, 0) :
         verdict' = r.records[1]
    /\ pc' = "interpreted"
    /\ UNCHANGED <<lookupVars, envVars, cycleVars, storeVars, response, polls,
                   foreignWrites, synced, config,
                   config_mtime, raw_payload, sleep_seconds, slept, exc,
                   closes, cycles, unserved, cyclesAfterStop>>

(* ------------------------- the web application ------------------------ *)
\* A row of the web application's targets table with its secret
\* (webapp/models.py); host is the list _split_hostnames makes of it.
WebTarget(id, host, domain, encrypted_value) ==
    [id |-> id, host |-> host, domain |-> domain,
     encrypted_value |-> encrypted_value]
WebTargets == {WebTarget("1", <<"home.example.org">>, "example.org", "ctA")}

\* routes.py lines 528-534: the default AGENT_UPDATE_URL_TEMPLATE, filled.
ForceUrl(target, hostname, ip_address) ==
    Url("https", "dynamicdns.park-your-domain.com",
        <<hostname, target.domain, decrypt_str(target.encrypted_value),
          ip_address>>)

\* routes.py lines 535-571: the record force_target_update makes of what
\* requests.get did for one hostname. A Response is truthy when its status
\* is below 400.
ForceRecord(target, ip_address, net) ==
    IF net.kind = "response"
    THEN LET parsed_fields == _parse_namecheap_fields(net.body)
             status == IF \/ net.code[1] >= 400
                          \/ _is_namecheap_error(parsed_fields)
                       THEN "error" ELSE "success"
         IN  UpdateRecord(target.id, status,
                          _format_namecheap_message(net.body, net.code,
                                                    parsed_fields),
                          net.code, ip_address)
    ELSE LET truthy == net.code # <<>> /\ net.code[1] < 400
             parsed_fields == IF truthy THEN _parse_namecheap_fields(net.body)
                              ELSE <<>>
             message == IF parsed_fields # <<>> \/ net.code # <<>>
                        THEN _format_namecheap_message(
                                 IF truthy THEN net.body
                                 ELSE TextBody(net.message),
                                 net.code, parsed_fields)
                        ELSE net.message
         IN  UpdateRecord(target.id, "error", message, net.code, ip_address)

\* The rows one call of force_target_update may write: one for each
\* hostname of the target, in their order.
ForceRecords(target, ip_address) ==
    LET n == Len(target.host)
        nets(i) == SessionGet(ForceUrl(target, target.host[i], ip_address))
    IN  {[i \in 1..n |-> ForceRecord(target, ip_address, answers[i])] :
            answers \in {f \in [1..n -> UNION {nets(i) : i \in 1..n}] :
                            \A i \in 1..n : f[i] \in nets(i)}}

\* POST /targets/<id>/force, routes.py lines 504-592: the web application
\* opens the runtime's store with its own LogDB and logs what it did. It
\* answers 502 and writes nothing when its own IP lookup fails.
force_target_update ==
    /\ \E target \in WebTargets, ip_address \in CheckIpAnswers \ {None} :
         /\ decrypt_str(target.encrypted_value) # None
         /\ foreignWrites + Len(target.host) <= MaxForces
         /\ \E records \in ForceRecords(target, ip_address) :
              /\ history' = log_update(history, records)
              /\ foreignWrites' = foreignWrites + Len(records)
    /\ UNCHANGED <<lookupVars, response, verdict, polls, synced, envVars,
                   cycleVars, cache, faults, pc, config, config_mtime, raw_payload,
                   sleep_seconds, slept, exc, closes, cycles, unserved,
                   cyclesAfterStop>>

(* ---------------------------- specification --------------------------- *)
MainThread ==
    \/ BootRead \/ BootParse \/ While \/ ReloadCheck \/ ReloadRead
    \/ ReloadParse \/ Clear \/ DetermineIp \/ ReadLastIp \/ WriteLastIp
    \/ SkipTarget \/ AttemptTarget \/ GetSleep \/ WaitTick \/ WaitReturn
    \/ Close

Next == MainThread \/ handle_sighup \/ handle_sigterm \/ WriteSource

\* The process starts with the handlers installed and the store open and
\* empty (main lines 22-35); the source holds anything the publisher may
\* have left, one of contents. budget is the number of log_update calls
\* that may fail; position is where the main thread stands and responses
\* what it may hold of the provider there.
StartAt(position, budget, contents, responses) ==
    /\ pc = position
    /\ reload_event = FALSE
    /\ stop_event = FALSE
    /\ config = <<>>
    /\ config_mtime = <<>>
    /\ raw_payload = NoPayload
    /\ file \in {[content |-> c, mtime |-> 1] : c \in contents}
    /\ update_url_allowlist = parse_host_allowlist({"Provider.Example"})
    /\ cache = [k \in CacheKeys |-> None]
    /\ history = <<>>
    /\ current_ip = None
    /\ skip_unchanged_ip = FALSE
    /\ idx = 0
    /\ sleep_seconds = 0
    /\ slept = 0
    /\ exc = "none"
    /\ closes = 0
    /\ cycles = 0
    /\ writes = 0
    /\ faults = budget
    /\ hupInWait = FALSE
    /\ outcome = <<>>
    /\ netCalls = <<>>
    /\ cycleLog = <<>>
    /\ cachedAtStart = None
    /\ unserved = FALSE
    /\ cyclesAfterStop = 0
    /\ ipLookups = 0
    /\ fallbackWarnings = 0
    /\ response \in responses
    /\ verdict = NoVerdict
    /\ polls = 0
    /\ foreignWrites = 0
    /\ synced = {}
    /\ knownIp = None

\* main() from its first line.
Start(budget, contents) ==
    StartAt("boot_read", budget, contents, {NoResponse})

\* The store works: no log_update fails.
Init == Start(0, Contents)
Spec == Init /\ [][Next]_vars

\* The store may fail: up to MaxFaults calls of log_update raise.
InitFaulty == Start(MaxFaults, Contents)
FaultSpec == InitFaulty /\ [][Next]_vars

\* The response interpreter on every response of RepeatResponses.
InitRepeat == StartAt("interpret", 0, {NoPayload}, RepeatResponses)
RepeatSpec == InitRepeat /\ [][Interpret]_vars

\* The runtime on the configuration of a target of two hostnames.
InitMulti == Start(0, {Content("json", DocMulti)})
MultiSpec == InitMulti /\ [][Next]_vars

\* The runtime with the web application serving requests beside it, the
\* source being left as published.
InitWeb == Start(0, {Content("json", DocSolo)})
WebNext ==
    MainThread \/ handle_sighup \/ handle_sigterm \/ force_target_update
WebSpec == InitWeb /\ [][WebNext]_vars

\* A runner, constructed and not yet loaded, whose caller keeps calling
\* load_config_if_changed while the source is written.
InitPoll == StartAt("poll", 0, Contents, {NoResponse})
PollNext == PollStat \/ PollRead \/ PollParse \/ PollAgain \/ WriteSource
PollSpec == InitPoll /\ [][PollNext]_vars

\* The response interpreter on every response of ProviderResponses.
InitInterp == StartAt("interpret", 0, {NoPayload}, ProviderResponses)
InterpSpec == InitInterp /\ [][Interpret]_vars

\* The same program started over any of the wider set of sources.
InitWide == Start(0, WideContents)
WideSpec == InitWide /\ [][Next]_vars

\* The main thread is scheduled as long as it has a step to take.
FairSpec == Spec /\ WF_vars(MainThread)

(* ------------------------------- claims ------------------------------- *)
Positions == 1..Len(outcome)
FailKinds == {"url_rejected", "decrypt_failed", "network_failure", "unexpected"}
ConfigErrors == {"FileNotFoundError", "ValueError", "ValidationError"}
\* run_once is at its loop, or has just returned.
InLoop == pc \in {"target", "get_sleep"}
\* The target at hand, while run_once is at its loop.
Turn == Cfg.targets[idx]
\* The step is the main thread's, processing the target at hand.
Processed == pc = "target" /\ outcome' # outcome
\* The cycle is an unchanged pass: the IP is known and equals the last_ip
\* that line 238 read.
UnchangedPass == Truthy(current_ip) /\ cachedAtStart = current_ip

\* C1: in an unchanged pass, a target whose cache entry last_ip:<id> equals
\* the current IP when its turn comes gets no update request in the cycle.
C1_UnchangedTargetNoRequest ==
    [][(/\ pc = "target"
        /\ UnchangedPass
        /\ get_cache(cache, CacheKey(Turn.id)) = current_ip)
       => netCalls'[idx] = 0 /\ history' = history]_vars

C1_Witness ==
    /\ pc = "get_sleep"
    /\ UnchangedPass
    /\ \E i \in Positions :
         /\ outcome[i] = "skipped"
         /\ netCalls[i] = 0
         /\ get_cache(cache, CacheKey(Cfg.targets[i].id)) = current_ip

\* C2: while the store works, a target that fails by URL rejection, token
\* decryption, the network or an unexpected exception leaves an error
\* record of its own in the history, and the loop goes on: every target
\* before the one at hand has been processed, all of them once run_once
\* has returned, and run_once is not left by an exception.
C2_FailureDoesNotAbort ==
    (\A i \in Positions : outcome[i] # "storage_fault") =>
        /\ \A i \in Positions :
             outcome[i] \in FailKinds =>
                \E k \in 1..Len(cycleLog) :
                    /\ cycleLog[k][1] = i
                    /\ cycleLog[k][2].status = "error"
                    /\ cycleLog[k][2].target_id = Cfg.targets[i].id
                    /\ \E h \in 1..Len(history) : history[h] = cycleLog[k][2]
        /\ pc = "target" =>
             \A i \in Positions : (i < idx) <=> (outcome[i] # "pending")
        /\ pc = "get_sleep" => \A i \in Positions : outcome[i] # "pending"
        /\ exc # "sqlite3.Error"

C2_Witness ==
    /\ pc = "get_sleep"
    /\ \A i \in Positions : outcome[i] # "storage_fault"
    /\ {"url_rejected", "decrypt_failed", "unexpected"}
         \subseteq {outcome[i] : i \in Positions}
    /\ \E i \in Positions :
         /\ outcome[i] = "network_failure"
         /\ \A j \in Positions : j < i => outcome[j] \in FailKinds

\* C3: no message of the history and no cache value holds the decrypted
\* token of a target.
C3_TokenNeverPersisted ==
    /\ \A h \in 1..Len(history) :
         \A token \in Tokens : ~Contains(history[h].message, token)
    /\ \A k \in CacheKeys : get_cache(cache, k) \notin Tokens

\* The built update URL of the target is rejected by the URL guard.
Rejected(target) ==
    LET token == decrypt_str(target.encrypted_token)
        built == _build_update_url(target.update_url, token, target.hostname,
                                   target.id, current_ip)
    IN  /\ token # None
        /\ built.ok
        /\ validate_url(built.url, update_url_allowlist) # OK

RejectionReasons ==
    {<<"URL must use https://">>, <<"URL must include a hostname">>,
     <<"URL hostname cannot be localhost">>,
     <<"URL hostname cannot be a loopback or private IP">>}
    \cup {<<"URL host", h, "is not in the allowlist">> : h \in {"other.example"}}

\* C4: an attempted target whose built update URL the URL guard rejects
\* gets no update request, exactly one record is appended for it, with
\* status error, no response code and the rejection reason in its message,
\* and the loop goes on with the next target.
C4_RejectedUrlRecordedNoRequest ==
    [][(Processed /\ ~SkipsTarget(Turn) /\ Rejected(Turn)) =>
         /\ netCalls'[idx] = 0
         /\ Len(history') = Len(history) + 1
         /\ SubSeq(history', 1, Len(history)) = history
         /\ LET record == history'[Len(history')]
            IN  /\ record.target_id = Turn.id
                /\ record.status = "error"
                /\ record.response_code = <<>>
                /\ record.ip_address = current_ip
                /\ \E reason \in RejectionReasons :
                      record.message = <<"Update URL rejected:">> \o reason
         /\ IF idx < Len(Cfg.targets)
            THEN pc' = "target" /\ idx' = idx + 1
            ELSE pc' = "get_sleep"]_vars

C4_Witness ==
    /\ pc = "get_sleep"
    /\ \E i \in Positions :
         /\ outcome[i] = "url_rejected"
         /\ netCalls[i] = 0
         /\ Cfg.targets[i].update_url.host = "other.example"
         /\ \E j \in Positions : j > i /\ netCalls[j] = 1

\* C5: in an unchanged pass, a target whose cache entry last_ip:<id> is
\* absent or differs from the current IP when its turn comes is attempted;
\* and every target whose attempt was classified success has last_ip:<id>
\* equal to the current IP from then on to the end of the cycle.
C5_UnsyncedTargetAttempted ==
    /\ [][(Processed /\ UnchangedPass
           /\ get_cache(cache, CacheKey(Turn.id)) # current_ip)
          => outcome'[idx] # "skipped"]_vars
    /\ [](InLoop /\ UnchangedPass =>
            \A i \in Positions :
                outcome[i] = "success" =>
                    get_cache(cache, CacheKey(Cfg.targets[i].id)) = current_ip)

C5_Witness ==
    /\ pc = "get_sleep"
    /\ UnchangedPass
    /\ \E i \in Positions :
         /\ outcome[i] = "success"
         /\ get_cache(cache, CacheKey(Cfg.targets[i].id)) = current_ip
         /\ \E j \in Positions : outcome[j] = "skipped"

\* C6: in a cycle whose current IP is known and differs from the last_ip
\* read at line 238 (or none was cached), nothing has been done for any
\* target before last_ip is written, and from the first target on last_ip
\* equals the new IP.
C6_LastIpWrittenFirst ==
    /\ pc \in {"read_cache", "write_cache"} =>
         /\ \A i \in Positions : outcome[i] = "pending" /\ netCalls[i] = 0
         /\ cycleLog = <<>>
    /\ (InLoop /\ Truthy(current_ip) /\ cachedAtStart # current_ip) =>
         get_cache(cache, <<"last_ip">>) = current_ip

C6_Witness ==
    /\ pc = "target"
    /\ idx = 1
    /\ outcome[1] = "pending"
    /\ Truthy(current_ip)
    /\ Truthy(cachedAtStart)
    /\ cachedAtStart # current_ip
    /\ get_cache(cache, <<"last_ip">>) = current_ip

\* The loop of main() is still running.
LoopRuns == pc \notin {"finally", "exited", "failed"}

\* C7: a configuration load that a reload signal triggered and that fails
\* is contained: the loop keeps running with the configuration it had.
C7_ReloadFailureContained == exc \in ConfigErrors => LoopRuns \/ pc = "failed"

\* C8: no reload trigger is lost: while the loop runs, a SIGHUP that no
\* load has begun after leaves reload_event set, so that the top of the
\* next iteration loads the configuration.
C8_NoReloadLost == (LoopRuns /\ unserved) => reload_event

\* Time passes in the wait of main line 47.
SleepGoesOn == pc = "wait" /\ pc' = "wait" /\ slept' > slept

C10_StopExitsAndCloses ==
    /\ [](/\ cyclesAfterStop <= 1
          /\ closes <= 1
          /\ pc = "exited" => closes = 1
          /\ pc # "exited" => closes = 0)
    /\ (stop_event ~> pc \in {"exited", "failed"})

C10_Witness ==
    /\ pc = "exited"
    /\ stop_event
    /\ exc = "none"
    /\ cyclesAfterStop = 1
    /\ closes = 1

\* C11: a storage fault of log_update while a target is being processed
\* ends only that target's attempt: run_once is not left by the fault, and
\* once it has returned every target of the cycle has been processed.
C11_StorageFaultContained ==
    (\E i \in Positions : outcome[i] = "storage_fault") =>
        /\ exc # "sqlite3.Error"
        /\ pc \in {"target", "get_sleep"}
        /\ pc = "get_sleep" => \A i \in Positions : outcome[i] # "pending"

\* The cycle at hand has targets and its automatic IP lookup failed.
LookupFailed ==
    /\ pc \in {"read_cache", "write_cache", "target", "get_sleep"}
    /\ Cfg.targets # <<>>
    /\ current_ip = None

\* C12: in a cycle whose IP lookup failed, by the URL guard or by the
\* request, the cycle goes on: no exception leaves it, last_ip stays as it
\* was read, no target is skipped, every target has been attempted when
\* run_once returns, and the request of a target has the empty string in
\* the place of {ip}.
C12_LookupFailureTolerated ==
    /\ [](LookupFailed =>
            /\ exc = "none"
            /\ pc \in {"target", "get_sleep"} =>
                 get_cache(cache, <<"last_ip">>) = cachedAtStart
            /\ \A i \in Positions : outcome[i] # "skipped"
            /\ pc = "get_sleep" => \A i \in Positions : outcome[i] # "pending")
    /\ [][(LookupFailed /\ Processed /\ outcome'[idx] = "network_failure") =>
            LET sent == history'[Len(history')].message
            IN  /\ Contains(sent, "")
                /\ ~Contains(sent, "{ip}")
                /\ ~Contains(sent, None)]_vars

C12_Witness ==
    /\ pc = "get_sleep"
    /\ LookupFailed
    /\ ipLookups = 1
    /\ cachedAtStart \in {IpA, IpB}
    /\ \E i \in Positions : outcome[i] = "network_failure"
    /\ \E i \in Positions : outcome[i] = "success"

\* Texts of ErrCount that are an integer above zero, and texts of
\* IsSuccess that say no.
PositiveCounts == {"1", "2", " 1 "}
Denials == {"false", "False", "FALSE", "no", "NO", " NO ", "0"}

\* C13: the record made of a provider response has status error exactly
\* when the HTTP status is 400 or above, or the recognized field ErrCount
\* is an integer above zero, or the recognized field IsSuccess, trimmed and
\* in lower case, is false, 0 or no; otherwise its status is success.
C13_ClassificationRule ==
    pc = "interpreted" =>
        LET fields == _parse_namecheap_fields(response.body)
            failed == \/ response.code[1] >= 400
                      \/ GetKey(fields, "ErrCount") \in PositiveCounts
                      \/ GetKey(fields, "IsSuccess") \in Denials
        IN  /\ verdict.status \in {"error", "success"}
            /\ verdict.status = "error" <=> failed

C13_Witness ==
    /\ pc = "interpreted"
    /\ response.code = <<200>>
    /\ response.body = FieldDoc("many", "True", TRUE)
    /\ verdict.status = "success"

\* a text holds the atoms of part one after the other.
ContainsSeq(text, part) ==
    \E i \in 0..(Len(text) - Len(part)) :
        \A k \in 1..Len(part) : text[i + k] = part[k]

\* C14: the response with status 200 whose body is the two sibling
\* elements ErrCount 1 and Err1 Invalid Hostname, without a root element,
\* is recorded with status error and a message holding Err1=Invalid Hostname.
C14_RootlessErrorBody ==
    (pc = "interpreted" /\ response.code = <<200>> /\ response.body = BodyRootless)
        => /\ verdict.status = "error"
           /\ ContainsSeq(verdict.message, <<"Err1", "=", "Invalid Hostname">>)

\* Outcomes in which the attempt ended in an error.
ErrorKinds == FailKinds \cup {"provider_error"}

MainStepAt(at) == pc = at /\ pc' # pc

\* C16: with a configuration without targets, run_once returns at once:
\* it issues no IP lookup and no update request, never comes to read or
\* write the cache, appends no record, and the sleep that follows is of 60
\* seconds.
C16_NoTargetsNoWork ==
    /\ [][(MainStepAt("run_once") /\ Cfg.targets = <<>>) =>
            /\ pc' = "get_sleep"
            /\ ipLookups' = 0
            /\ fallbackWarnings' = 0
            /\ netCalls' = <<>>
            /\ cache' = cache
            /\ history' = history]_vars
    /\ [][(MainStepAt("get_sleep") /\ Cfg.targets = <<>>) =>
            /\ pc' = "wait"
            /\ sleep_seconds' = 60
            /\ cache' = cache
            /\ history' = history]_vars

C16_Witness ==
    /\ pc = "wait"
    /\ Cfg.targets = <<>>
    /\ Cfg.manual_ip_enabled
    /\ sleep_seconds = 60
    /\ cycles = 1
    /\ history = <<>>
    /\ get_cache(cache, <<"last_ip">>) = None

\* Manual override is enabled without an address, or with one.
ManualUnset == Cfg.manual_ip_enabled /\ ~Truthy(Cfg.manual_ip_address)
ManualSet == Cfg.manual_ip_enabled /\ Truthy(Cfg.manual_ip_address)
\* run_once is under way, its IP determined.
InCycle == pc \in {"read_cache", "write_cache", "target", "get_sleep"}
\* The requests a lookup of the configured check-IP URL takes.
LookupRequests ==
    IF validate_url(Cfg.check_ip_url, check_ip_allowlist) = OK THEN 1 ELSE 0

\* What a cycle does about the manual override: without an address it
\* turns to the automatic lookup and logs the warning once; with an
\* address it takes the address and issues no lookup.
ManualRule ==
    /\ ManualUnset => /\ ipLookups = LookupRequests
                      /\ fallbackWarnings = 1
    /\ ManualSet => /\ current_ip = Cfg.manual_ip_address
                    /\ ipLookups = 0
                    /\ fallbackWarnings = 0

\* C17: every cycle follows the rule of the manual override.
C17_ManualOverride == InCycle => ManualRule

\* C17, amended: every cycle over at least one target follows the rule
\* of the manual override.
C17_ManualOverrideWithTargets == (InCycle /\ Cfg.targets # <<>>) => ManualRule

C17_Witness ==
    /\ pc = "get_sleep"
    /\ Cfg.targets # <<>>
    /\ ManualUnset
    /\ fallbackWarnings = 1
    /\ ipLookups = 1
    /\ Truthy(current_ip)
    /\ \A i \in Positions : outcome[i] # "pending"

\* The intervals of the targets of the active configuration.
Intervals == {Cfg.targets[i].interval : i \in 1..Len(Cfg.targets)}

\* C18: the sleep interval computed after a cycle is 60 without targets;
\* with targets it is the least of their intervals, or 30 when that is
\* below 30: it is never below 30.
C18_SleepInterval ==
    pc = "wait" =>
        /\ sleep_seconds >= 30
        /\ Cfg.targets = <<>> => sleep_seconds = 60
        /\ Cfg.targets # <<>> =>
             \E least \in Intervals :
                /\ \A other \in Intervals : least <= other
                /\ sleep_seconds = IF least > 30 THEN least ELSE 30

C18_Witness ==
    /\ pc = "wait"
    /\ sleep_seconds = 30
    /\ \E least \in Intervals : least < 0
    /\ \E other \in Intervals : other = 0

\* The source is there when load_config_if_changed stats it.
SourcePresent == file.content.kind # "missing"
\* What load_config makes of the payload it has read.
Loaded ==
    IF raw_payload.kind = "blank" THEN <<EmptyConfig>>
    ELSE model_validate(raw_payload.doc)

\* C19: load_config_if_changed reloads and returns true only when the
\* fingerprint of the source differs from the one held or none is held;
\* with the source absent it returns false without raising, clears the
\* fingerprint and keeps the active configuration; with the source present
\* and its fingerprint unchanged it returns false and changes nothing.
C19_ReloadOnlyOnChange ==
    [][/\ (pc' = "poll_read" /\ pc # "poll_read") =>
            /\ pc = "poll"
            /\ SourcePresent
            /\ config_mtime # <<file.mtime>>
       /\ (pc' = "poll_parse" /\ pc # "poll_parse") => pc = "poll_read"
       /\ (pc' = "poll_true" /\ pc # "poll_true") =>
            /\ pc = "poll_parse"
            /\ config' = Loaded
            /\ config' # <<>>
            /\ config_mtime' = <<file.mtime>>
       /\ (MainStepAt("poll") /\ ~SourcePresent) =>
            /\ pc' = "poll_false"
            /\ exc' = "none"
            /\ config_mtime' = <<>>
            /\ config' = config
       /\ (MainStepAt("poll") /\ SourcePresent
              /\ config_mtime = <<file.mtime>>) =>
            /\ pc' = "poll_false"
            /\ exc' = "none"
            /\ UNCHANGED <<config, config_mtime, raw_payload, storeVars>>
       /\ config' # config => pc' = "poll_true"
      ]_vars

\* The source was loaded and then removed, and the next call has returned
\* false with the configuration kept and the fingerprint cleared.
C19_Witness ==
    /\ pc = "poll_false"
    /\ ~SourcePresent
    /\ polls >= 1
    /\ config # <<>>
    /\ config_mtime = <<>>
    /\ exc = "none"

\* The records the running cycle has written are the last of the history,
\* each under the id of its target, and in the order of the targets in the
\* configuration.
CycleRecordsInOrder(table, log) ==
    LET n == Len(log)
        before == Len(table) - n
    IN  /\ before >= 0
        /\ \A k \in 1..n :
              /\ table[before + k] = log[k][2]
              /\ log[k][2].target_id = Cfg.targets[log[k][1]].id
        /\ \A j, k \in 1..n : j < k => log[j][1] <= log[k][1]

\* C20: the update history is append-only: every step of the runtime keeps
\* the records already written, unchanged and in place, adds new ones only
\* at the end, and the records of one cycle come in the configuration order
\* of their targets.
C20_HistoryAppendOnly ==
    [][/\ Len(history') >= Len(history)
       /\ SubSeq(history', 1, Len(history)) = history
       /\ history' # history => CycleRecordsInOrder(history', cycleLog')
      ]_vars

\* A second cycle has written a record for each of two targets after the
\* records of the first cycle.
C20_Witness ==
    /\ cycles = 2
    /\ Len(cycleLog) = 2
    /\ Len(history) >= 4
    /\ cycleLog[1][1] = 1
    /\ cycleLog[2][1] = 2
    /\ history[Len(history)].target_id = Cfg.targets[2].id

\* C21: the runtime is the only writer of the state store: while it runs,
\* no update_history row and no cache entry is written by another
\* component.
C21_RuntimeSoleWriter ==
    [][Running => /\ foreignWrites' = foreignWrites
                  /\ (history' # history \/ cache' # cache) => MainThread
      ]_vars

\* C22: a target entry is skipped only if an update of that same entry
\* (same hostname) was classified success for the current IP before; the
\* success of another entry, of the same id or not, never makes it skipped.
C22_SkipOnlyOwnSuccess ==
    [][(pc = "target" /\ outcome' # outcome /\ outcome'[idx] = "skipped")
       => <<Turn.hostname, current_ip>> \in synced]_vars

\* The record's message shows the field with that value.
Shows(tag, value) == ContainsSeq(verdict.message, <<tag, "=", value>>)

\* C23: when a document holds several elements of one recognized tag
\* (ErrCount, IsSuccess, Err<digits>), each with text, the field keeps the
\* text of the first of them; and an attribute IsSuccess or ErrCount is
\* taken only when the field has no value yet.
C23_FirstOccurrenceWins ==
    pc = "interpreted" =>
        \A tag \in RepeatTags, first \in RepeatTexts, second \in RepeatTexts :
            /\ response.body = RepeatDoc(tag, first, second)
                  => Shows(tag, first)
            /\ response.body = LateAttribDoc(tag, first, second)
                  => Shows(tag, first)

\* The records the running cycle has written for the target at position i.
RecordsOf(i) == {k \in 1..Len(cycleLog) : cycleLog[k][1] = i}
AttemptKinds ==
    {"success", "provider_error", "url_rejected", "decrypt_failed",
     "network_failure", "unexpected"}

\* C24: while the store accepts writes, a cycle has written exactly one
\* record for each target it attempted and none for a target it skipped or
\* has not reached, and has made at most one update request for a target;
\* each attempt adds its one record in its own step.
C24_OneRecordPerAttempt ==
    /\ [](\A i \in Positions :
            /\ outcome[i] \in AttemptKinds \cup {"pending", "skipped"}
            /\ Cardinality(RecordsOf(i)) =
                  IF outcome[i] \in AttemptKinds THEN 1 ELSE 0
            /\ netCalls[i] <= 1
            /\ outcome[i] \in {"pending", "skipped"} => netCalls[i] = 0)
    /\ [][Processed =>
            IF outcome'[idx] = "skipped"
            THEN history' = history
            ELSE /\ Len(history') = Len(history) + 1
                 /\ history'[Len(history')].target_id = Turn.id]_vars

\* A cycle has gone through a rejected URL, a token that does not decrypt,
\* an unexpected exception and a network failure, with a record for each.
C24_Witness ==
    /\ pc = "get_sleep"
    /\ Len(cycleLog) = Len(outcome)
    /\ {"url_rejected", "decrypt_failed", "unexpected", "network_failure"}
          \subseteq {outcome[i] : i \in Positions}

\* A success record of that target and that IP is in the history.
Succeeded(id, ip) ==
    \E h \in 1..Len(history) :
        /\ history[h].status = "success"
        /\ history[h].target_id = id
        /\ history[h].ip_address = ip
\* Every entry last_ip:<id> of the cache has its success record.
CacheBacked ==
    \A id \in TargetIds :
        get_cache(cache, CacheKey(id)) # None =>
            Succeeded(id, get_cache(cache, CacheKey(id)))
\* run_once stands between its IP lookup and its write of last_ip
\* (lines 238-246).
BeforeLastIpWrite == pc \in {"read_cache", "write_cache"}

\* C25: from an empty store and with the runtime as only writer, in every
\* state an entry last_ip:<id> = v has a success record of id and v in the
\* history, and last_ip, when present, is the current IP of the most
\* recent cycle that had a target and a known IP.
C25_CacheMatchesHistory ==
    /\ CacheBacked
    /\ get_cache(cache, <<"last_ip">>) # None =>
         get_cache(cache, <<"last_ip">>) = knownIp

\* The same, last_ip being looked at once the cycle has written it: in
\* every state but those between a cycle's IP lookup and its write.
C25_CacheMatchesHistoryAfterWrite ==
    /\ CacheBacked
    /\ ~BeforeLastIpWrite => get_cache(cache, <<"last_ip">>) = knownIp
    /\ BeforeLastIpWrite => knownIp \in {current_ip, get_cache(cache, <<"last_ip">>)}

\* A later cycle did not learn its IP: last_ip and the entry of a target
\* are those of the cycle before, whose success is in the history.
C25_Witness ==
    /\ pc = "target"
    /\ cycles = 2
    /\ ~Truthy(current_ip)
    /\ get_cache(cache, <<"last_ip">>) = IpA
    /\ knownIp = IpA
    /\ \E id \in TargetIds : get_cache(cache, CacheKey(id)) = IpA

=============================================================================
